---- MODULE Spec2Model ----
(***************************************************************************)
(* A model of the temperature bot (src/src/tempbot.py) and of the form     *)
(* client it uses (src/src/gformhelper.py).                                *)
(*                                                                         *)
(* State: the per-chat user_data dictionaries, the ConversationHandler     *)
(* state of every chat, the scheduler's job list, the question and page    *)
(* registries, the form data cached by the form client, and the clock.     *)
(* One action per handler or scheduled callback.  An exception raised in a *)
(* handler keeps the assignments made before it and leaves the             *)
(* conversation state as it was.                                           *)
(***************************************************************************)
EXTENDS Integers, Sequences, FiniteSets, TLC

\* ---------------------------------------------------------------- constants

REMINDER_USER_LIMIT == 50

STATUS_SUBMIT_OK == 200

\* Cap on the daily jobs one chat may own (aborted set_reminder_pm calls can
\* add jobs without end).
MaxOwnedJobs == 3

\* The chats whose handlers are modelled step by step (update.message.chat.id).
Sessions == {"chat1"}

\* The chat id standing for every chat outside Sessions.  Those chats have
\* completed /config, have submitted for both periods and send nothing.
Other == "others"

\* job.context of a job created without a context (None).
NoContext == "None"

STATE_SET_GROUP == "set_group"
STATE_SET_NAME == "set_name"
STATE_SET_REMINDER_AM == "set_reminder_am"
STATE_SET_REMINDER_PM == "set_reminder_pm"
STATE_SET_TEMPERATURE_AM == "set_temperature_am"
STATE_SET_TEMPERATURE_PM == "set_temperature_pm"
\* ConversationHandler.END: the chat has no conversation state.
END == "end"

USER_DATA_CONFIG_DONE == "config_done"
USER_DATA_CURRENT_STATE == "current_state"
USER_DATA_OPTIONS == "options"
USER_DATA_GROUP == "group"
USER_DATA_NAME == "name"
USER_DATA_REMINDER_AM == "reminder_am"
USER_DATA_REMINDER_PM == "reminder_pm"
USER_DATA_SUBMITTED_TEMPERATURE_AM == "submitted_am"
USER_DATA_SUBMITTED_TEMPERATURE_PM == "submitted_pm"

\* ---------------------------------------------------------------- job names

\* A job name is a string; the model keeps the parts the code reads:
\*   "HH:MM"                        kind "slot"
\*   "HH:MM-extra_reminder-HH:MM"   kind "extra"
\*   "daily_night_reset"            kind "night"
SlotName(h, m) == [kind |-> "slot", hh |-> h, mm |-> m, nh |-> 0, nm |-> 0]
ExtraName(h, m, h2, m2) == [kind |-> "extra", hh |-> h, mm |-> m, nh |-> h2, nm |-> m2]
NightName == [kind |-> "night", hh |-> 0, mm |-> 0, nh |-> 0, nm |-> 0]

\* REMINDER_JOB_NAME_REGEX.match(x): re.match anchors at the start only, so
\* every name that begins with two digits, a colon and two digits matches.
REMINDER_JOB_NAME_REGEX(x) == x.kind \in {"slot", "extra"}

\* "extra_reminder" in job.name
IsExtraName(x) == x.kind = "extra"

\* x[:2]
HourText(x) == x.hh

\* int(x[3:]) succeeds only when nothing follows the minute digits.
MinuteIsInt(x) == x.kind = "slot"

\* ---------------------------------------------------------------- dictionaries

\* A Python dict is a function from its present keys.
EmptyDict == [k \in {} |-> 0]
Has(d, k) == k \in DOMAIN d
Put(d, k, v) == [x \in (DOMAIN d) \cup {k} |-> IF x = k THEN v ELSE d[x]]
Del(d, k) == [x \in (DOMAIN d) \ {k} |-> d[x]]

\* d.get(k) is truthy, for a key holding a boolean
GetBool(d, k) == Has(d, k) /\ d[k] = TRUE

\* ---------------------------------------------------------------- the job list

\* The job list is a bag of [name, ctx]: ctx is the chat id of the update in
\* the (update, context) tuple, or NoContext.
Job(n, c) == [name |-> n, ctx |-> c]

RECURSIVE BagSum(_, _)
BagSum(B, S) ==
    IF S = {} THEN 0
    ELSE LET e == CHOOSE x \in S : TRUE
         IN B[e] + BagSum(B, S \ {e})

BagSize(B) == BagSum(B, DOMAIN B)

BagAdd(B, e) ==
    IF e \in DOMAIN B THEN [B EXCEPT ![e] = @ + 1] ELSE B @@ (e :> 1)

BagRemoveOne(B, e) ==
    IF e \notin DOMAIN B THEN B
    ELSE IF B[e] = 1 THEN [x \in (DOMAIN B) \ {e} |-> B[x]]
    ELSE [B EXCEPT ![e] = @ - 1]

BagOf(n, e) == IF n = 0 THEN <<>> ELSE (e :> n)

\* scheduler.get_jobs_by_name(name), as a count
get_jobs_by_name(js, n) == BagSum(js, {j \in DOMAIN js : j.name = n})

\* the jobs whose context names chat_id
OwnedBy(js, chat_id) == {j \in DOMAIN js : j.ctx = chat_id}

OwnedCount(js, chat_id) == BagSum(js, OwnedBy(js, chat_id))

\* ---------------------------------------------------------------- the form

\* Registry keys and group options are strings, kept as tuples of characters
\* because config() reads single characters of an option.
KEY_GROUP == <<"G", "R", "O", "U", "P">>
KEY_DATE == <<"D", "A", "T", "E">>
KEY_AM_OR_PM == <<"A", "M", " ", "O", "R", " ", "P", "M">>
KEY_AM_TEMP == <<"A", "M", " ", "T", "E", "M", "P">>
KEY_PM_TEMP == <<"P", "M", " ", "T", "E", "M", "P">>

GroupGA == <<"G", "A">>
GroupGB == <<"G", "B">>

\* form_data, reduced to what the bot reads: the options of the group
\* question in form order, each with the id of the first question of the
\* section it leads to and the options of that question.
FormA == << [option |-> GroupGA, next |-> "id_GA", names |-> {"Alice"}] >>
FormB == << [option |-> GroupGA, next |-> "id_GA", names |-> {"Bob"}],
            [option |-> GroupGB, next |-> "id_GB", names |-> {"Alice"}] >>
Forms == {FormA, FormB}

\* GFormHelper.get_options_and_next_question_id: a dict option -> question id,
\* empty when question_id is not the id of the group question.
get_options_and_next_question_id(form, question_id) ==
    IF question_id = "id_GROUP"
    THEN [o \in {form[i].option : i \in DOMAIN form} |->
            (CHOOSE e \in {form[i] : i \in DOMAIN form} : e.option = o).next]
    ELSE EmptyDict

\* GFormHelper.get_options: the options of a question, [] when not found.
get_options(form, question_id) ==
    IF \E i \in DOMAIN form : form[i].next = question_id
    THEN (CHOOSE e \in {form[i] : i \in DOMAIN form} : e.next = question_id).names
    ELSE {}

\* questionids.txt as read by main(), and the page of each of its questions.
StartupQuestions ==
    (KEY_GROUP :> "id_GROUP") @@ (KEY_DATE :> "id_DATE") @@
    (KEY_AM_OR_PM :> "id_AMPM") @@ (KEY_AM_TEMP :> "id_AMTEMP") @@
    (KEY_PM_TEMP :> "id_PMTEMP") @@ (GroupGA :> "id_GA")

StartupPages == [k \in DOMAIN StartupQuestions |-> <<"page", StartupQuestions[k]>>]

\* ---------------------------------------------------------------- the clock

\* A time of day is <<hour, minute>>.  The clock steps from one time at which
\* a job runs to the next; ProbeTimes are further times at which it stops.
ProbeTimes == {<<9, 0>>}

Minutes(t) == 60 * t[1] + t[2]

\* the minutes from time t to the next occurrence of time u, 1..1440
Until(t, u) == ((Minutes(u) - Minutes(t) + 1439) % 1440) + 1

\* ---------------------------------------------------------------- state

VARIABLES
    user_data,   \* chat id -> the chat's user_data dict
    conv,        \* chat id -> the ConversationHandler state of the chat
    jobs,        \* scheduler.jobs(), a bag of [name, ctx]
    due,         \* the jobs of Sessions due at the current instant, not yet run
    questions,   \* question_name -> question_id
    pages,       \* question_name -> page_num
    form_data,   \* gform.form_data
    clock,       \* the current time of day
    out          \* what the last handler or callback did

vars == <<user_data, conv, jobs, due, questions, pages, form_data, clock, out>>

current_time == [hour |-> clock[1], minute |-> clock[2]]

NoPost == EmptyDict

\* What a handler or callback did: the function, the chat it served, whether
\* it raised, the messages it sent to the chat, the data it posted to the form
\* (NoPost when it posted nothing) and the jobs it removed from the scheduler.
OutR(by, chat, raised, msgs, post, removed) ==
    [by |-> by, chat |-> chat, raised |-> raised, msgs |-> msgs, post |-> post,
     removed |-> removed]

Out(by, chat, raised, msgs, post) == OutR(by, chat, raised, msgs, post, {})

\* The jobs of the chats outside Sessions: each of them owns one AM and one
\* PM daily job, assigned by set_reminder_pm in the order they configured.
\* They all asked for 10:00 and 21:00: the first REMINDER_USER_LIMIT of them
\* sit in minute 0, the next in minute 1.
OtherJobs(n) ==
    LET n0 == IF n <= REMINDER_USER_LIMIT THEN n ELSE REMINDER_USER_LIMIT
        n1 == n - n0
    IN BagOf(n0, Job(SlotName(10, 0), Other)) @@ BagOf(n1, Job(SlotName(10, 1), Other)) @@
       BagOf(n0, Job(SlotName(21, 0), Other)) @@ BagOf(n1, Job(SlotName(21, 1), Other))

\* The numbers of chats outside Sessions the model starts with.
OtherPopulations ==
    {0, REMINDER_USER_LIMIT - 1, REMINDER_USER_LIMIT, 2 * REMINDER_USER_LIMIT}

\* main(): the registries are filled, the nightly reset is scheduled.
Init ==
    /\ user_data = [s \in Sessions |-> EmptyDict]
    /\ conv = [s \in Sessions |-> END]
    /\ \E n \in OtherPopulations : jobs = (Job(NightName, NoContext) :> 1) @@ OtherJobs(n)
    /\ due = EmptyDict
    /\ questions = StartupQuestions
    /\ pages = StartupPages
    /\ form_data = FormA
    /\ clock \in ProbeTimes
    /\ out = Out("main", Other, FALSE, <<>>, NoPost)

\* ---------------------------------------------------------------- /stop

\* remove_reminders_from_jobqueue matching jobs by the names of the chat's jobs
remove_reminders_ByName(js, chat_id) ==
    [j \in {k \in DOMAIN js : \A o \in OwnedBy(js, chat_id) : o.name # k.name} |-> js[j]]

\* schedule_removal() of every job whose context names chat_id
remove_reminders_from_jobqueue(js, chat_id) ==
    [j \in (DOMAIN js) \ OwnedBy(js, chat_id) |-> js[j]]

\* the jobs of `d` that are still in the job list `js`
StillScheduled(d, js) ==
    [j \in (DOMAIN d) \cap (DOMAIN js) |-> IF d[j] <= js[j] THEN d[j] ELSE js[j]]

clear_user_data(s) ==
    /\ user_data' = [user_data EXCEPT ![s] = EmptyDict]
    /\ jobs' = remove_reminders_from_jobqueue(jobs, s)
    /\ due' = StillScheduled(due, jobs')

stop(s) ==
    /\ clear_user_data(s)
    /\ conv' = [conv EXCEPT ![s] = END]
    /\ out' = OutR("stop", s, FALSE, <<"You will no longer receive reminders.">>, NoPost,
                   (DOMAIN jobs) \ (DOMAIN jobs'))
    /\ UNCHANGED <<questions, pages, form_data, clock>>

\* ---------------------------------------------------------------- /config

\* config(), lines 388-391: for every option, in form order, register
\* option[0] -> option[1] unless option[0] is a key already; option[1] raises
\* IndexError on a one-character option.
RECURSIVE RegistryLoop(_, _, _)
RegistryLoop(q, form, i) ==
    IF i > Len(form) THEN [raised |-> FALSE, q |-> q]
    ELSE LET option == form[i].option
         IN IF <<option[1]>> \in DOMAIN q THEN RegistryLoop(q, form, i + 1)
            ELSE IF Len(option) < 2 THEN [raised |-> TRUE, q |-> q]
            ELSE RegistryLoop(Put(q, <<option[1]>>, option[2]), form, i + 1)

\* config(), lines 365-378: the jobs and the user_data after the reset part
ConfigJobs(js, ud, chat_id) ==
    IF GetBool(ud, USER_DATA_CONFIG_DONE)
    THEN remove_reminders_from_jobqueue(js, chat_id)
    ELSE js

\* ConfigReset without line 369: current_state keeps the state a prompt wrote.
ConfigReset_KeepsState(ud) ==
    LET d1 == Put(Put(Put(ud, USER_DATA_CONFIG_DONE, FALSE),
                      USER_DATA_SUBMITTED_TEMPERATURE_AM, FALSE),
                  USER_DATA_SUBMITTED_TEMPERATURE_PM, FALSE)
    IN Del(Del(d1, USER_DATA_REMINDER_AM), USER_DATA_REMINDER_PM)

ConfigReset(ud) ==
    LET d1 == Put(Put(Put(Put(ud, USER_DATA_CURRENT_STATE, ""),
                          USER_DATA_CONFIG_DONE, FALSE),
                      USER_DATA_SUBMITTED_TEMPERATURE_AM, FALSE),
                  USER_DATA_SUBMITTED_TEMPERATURE_PM, FALSE)
    IN Del(Del(d1, USER_DATA_REMINDER_AM), USER_DATA_REMINDER_PM)

\* config(), lines 380-385: the loop removes a job only when its context is a
\* list; run_daily is always given a tuple, so it removes nothing.
ConfigListLoop(js, chat_id) == js

config(s) ==
    LET js == ConfigListLoop(ConfigJobs(jobs, user_data[s], s), s)
        ud == ConfigReset(user_data[s])
        options_dict == get_options_and_next_question_id(form_data, questions[KEY_GROUP])
        reg == RegistryLoop(questions, form_data, 1)
        group_options == DOMAIN options_dict
    IN /\ jobs' = js
       /\ due' = StillScheduled(due, js)
       /\ questions' = reg.q
       /\ IF reg.raised
          THEN /\ user_data' = [user_data EXCEPT ![s] = ud]
               /\ conv' = conv
               /\ out' = OutR("config", s, TRUE, <<>>, NoPost, (DOMAIN jobs) \ (DOMAIN js))
          ELSE /\ user_data' = [user_data EXCEPT ![s] = Put(ud, USER_DATA_OPTIONS, group_options)]
               /\ conv' = [conv EXCEPT ![s] = STATE_SET_GROUP]
               /\ out' = OutR("config", s, FALSE, <<"Select your group:">>, NoPost,
                              (DOMAIN jobs) \ (DOMAIN js))
       /\ UNCHANGED <<pages, form_data, clock>>

\* ---------------------------------------------------------------- the dialog

\* bool(user_data.get("options")) / bool(user_data["options"])
OptionsTruthy(ud) == Has(ud, USER_DATA_OPTIONS) /\ ud[USER_DATA_OPTIONS] # {}

am_reminder_options == {SlotName(i, 0) : i \in 0..11}
pm_reminder_options == {SlotName(i, 0) : i \in 12..23}

\* What the chats of Sessions reply in the dialog: in each state one or two
\* of the offered options and one text that is not offered.
GroupReplies == {GroupGA, GroupGB, <<"?">>}
NameReplies == {"Alice", "?"}
AmReplies == {SlotName(10, 0), SlotName(10, 30)}
PmReplies == {SlotName(22, 0), SlotName(23, 0), SlotName(22, 30)}

set_group(s, text) ==
    LET ud == user_data[s]
        options_dict == get_options_and_next_question_id(form_data, questions[KEY_GROUP])
    IN /\ conv[s] = STATE_SET_GROUP
       /\ IF ~OptionsTruthy(ud)
          THEN /\ out' = Out("set_group", s, FALSE, <<"ERROR_MESSAGE_TO_USERS">>, NoPost)
               /\ UNCHANGED <<user_data, conv>>
          ELSE IF text \notin ud[USER_DATA_OPTIONS]
          THEN /\ out' = Out("set_group", s, FALSE, <<"Select your group:">>, NoPost)
               /\ conv' = [conv EXCEPT ![s] = STATE_SET_GROUP]
               /\ UNCHANGED user_data
          ELSE IF text \notin DOMAIN options_dict
          THEN \* options_dict[update.message.text] raises KeyError
               /\ user_data' = [user_data EXCEPT ![s] = Put(ud, USER_DATA_GROUP, text)]
               /\ out' = Out("set_group", s, TRUE, <<>>, NoPost)
               /\ UNCHANGED conv
          ELSE /\ user_data' = [user_data EXCEPT ![s] =
                      Put(Put(ud, USER_DATA_GROUP, text), USER_DATA_OPTIONS,
                          get_options(form_data, options_dict[text]))]
               /\ conv' = [conv EXCEPT ![s] = STATE_SET_NAME]
               /\ out' = Out("set_group", s, FALSE, <<"Select your name">>, NoPost)
       /\ UNCHANGED <<jobs, due, questions, pages, form_data, clock>>

set_name(s, text) ==
    LET ud == user_data[s]
    IN /\ conv[s] = STATE_SET_NAME
       /\ IF ~OptionsTruthy(ud)
          THEN /\ out' = Out("set_name", s, FALSE, <<"ERROR_MESSAGE_TO_USERS">>, NoPost)
               /\ UNCHANGED <<user_data, conv>>
          ELSE IF text \notin ud[USER_DATA_OPTIONS]
          THEN /\ out' = Out("set_name", s, FALSE, <<"Select your name">>, NoPost)
               /\ conv' = [conv EXCEPT ![s] = STATE_SET_NAME]
               /\ UNCHANGED user_data
          ELSE /\ user_data' = [user_data EXCEPT ![s] =
                      Put(Put(ud, USER_DATA_NAME, text), USER_DATA_OPTIONS,
                          am_reminder_options)]
               /\ conv' = [conv EXCEPT ![s] = STATE_SET_REMINDER_AM]
               /\ out' = Out("set_name", s, FALSE, <<"Set your daily AM temperature reminder:">>, NoPost)
       /\ UNCHANGED <<jobs, due, questions, pages, form_data, clock>>

set_reminder_am(s, text) ==
    LET ud == user_data[s]
    IN /\ conv[s] = STATE_SET_REMINDER_AM
       /\ IF ~Has(ud, USER_DATA_OPTIONS)
          THEN \* user_data["options"] raises KeyError
               /\ out' = Out("set_reminder_am", s, TRUE, <<>>, NoPost)
               /\ UNCHANGED <<user_data, conv>>
          ELSE IF ~OptionsTruthy(ud)
          THEN /\ out' = Out("set_reminder_am", s, FALSE, <<"ERROR_MESSAGE_TO_USERS">>, NoPost)
               /\ UNCHANGED <<user_data, conv>>
          ELSE IF text \notin ud[USER_DATA_OPTIONS]
          THEN /\ out' = Out("set_reminder_am", s, FALSE, <<"Set your daily AM temperature reminder:">>, NoPost)
               /\ conv' = [conv EXCEPT ![s] = STATE_SET_REMINDER_AM]
               /\ UNCHANGED user_data
          ELSE /\ user_data' = [user_data EXCEPT ![s] =
                      Put(Put(ud, USER_DATA_REMINDER_AM, text), USER_DATA_OPTIONS,
                          pm_reminder_options)]
               /\ conv' = [conv EXCEPT ![s] = STATE_SET_REMINDER_PM]
               /\ out' = Out("set_reminder_am", s, FALSE, <<"Set your daily PM temperature reminder:">>, NoPost)
       /\ UNCHANGED <<jobs, due, questions, pages, form_data, clock>>

\* ---------------------------------------------------------------- slot assignment

\* list_of_active_timeslots without the test x[:2] == time_requested[:2]: the
\* slots of every hour are scanned.
list_of_active_timeslots_AnyHour(js, time_requested) ==
    {n \in {j.name : j \in DOMAIN js} : REMINDER_JOB_NAME_REGEX(n)}

\* list(set(filter(... REMINDER_JOB_NAME_REGEX.match(x) and x[:2] == time_requested[:2] ...)))
list_of_active_timeslots(js, time_requested) ==
    {n \in {j.name : j \in DOMAIN js} :
        REMINDER_JOB_NAME_REGEX(n) /\ HourText(n) = HourText(time_requested)}

\* The orders in which a set can be enumerated: the order of a Python set of
\* strings changes from run to run of the interpreter.
Orders(S) ==
    {f \in [1..Cardinality(S) -> S] : \A i, j \in 1..Cardinality(S) : f[i] = f[j] => i = j}

\* The for loop of lines 521-529 (and 553-561) from position i on, with
\* next_inactive_minute as it stands: the first timeslot with room is taken;
\* every full one passed sets next_inactive_minute from its own minute, and
\* int(timeslot[3:]) raises ValueError on an extra-reminder name.
RECURSIVE ScanTimeslots(_, _, _, _)
ScanTimeslots(js, order, i, next_inactive_minute) ==
    IF i > Len(order)
    THEN [is_set |-> FALSE, raised |-> FALSE, timeslot |-> NightName,
          next_inactive_minute |-> next_inactive_minute]
    ELSE IF get_jobs_by_name(js, order[i]) < REMINDER_USER_LIMIT
    THEN [is_set |-> TRUE, raised |-> FALSE, timeslot |-> order[i],
          next_inactive_minute |-> next_inactive_minute]
    ELSE IF ~MinuteIsInt(order[i])
    THEN [is_set |-> FALSE, raised |-> TRUE, timeslot |-> NightName,
          next_inactive_minute |-> next_inactive_minute]
    ELSE ScanTimeslots(js, order, i + 1, (order[i].mm + 1) % 60)

\* Lines 514-540 (and 546-572): the slot stored in user_data and the daily job
\* created, for one enumeration order of the active timeslots.  `set` tells
\* whether user_data[key] was assigned, `raised` whether the code raised
\* before run_daily returned.
AssignSlot(js, chat_id, time_requested, order) ==
    LET scan == ScanTimeslots(js, order, 1, 0)
        reminder == IF scan.is_set THEN scan.timeslot
                    ELSE SlotName(HourText(time_requested), scan.next_inactive_minute)
    IN IF scan.raised
       THEN [raised |-> TRUE, set |-> FALSE, reminder |-> time_requested, jobs |-> js]
       ELSE IF ~MinuteIsInt(reminder)
       THEN [raised |-> TRUE, set |-> TRUE, reminder |-> reminder, jobs |-> js]
       ELSE [raised |-> FALSE, set |-> TRUE, reminder |-> reminder,
             jobs |-> BagAdd(js, Job(reminder, chat_id))]

\* ---------------------------------------------------------------- /force_submit

\* force_submit(): the user_data after it, the state it returns, its message
force_submit(ud) ==
    IF GetBool(ud, USER_DATA_CONFIG_DONE)
    THEN LET st == IF current_time.hour < 12 THEN STATE_SET_TEMPERATURE_AM
                   ELSE STATE_SET_TEMPERATURE_PM
         IN [ud |-> Put(ud, USER_DATA_CURRENT_STATE, st), ret |-> st,
             msg |-> "Please enter your temperature:"]
    ELSE [ud |-> ud, ret |-> END, msg |-> "Seems like you have not configured"]

ForceSubmit(s) ==
    LET r == force_submit(user_data[s])
    IN /\ user_data' = [user_data EXCEPT ![s] = r.ud]
       /\ conv' = [conv EXCEPT ![s] = r.ret]
       /\ out' = Out("force_submit", s, FALSE, <<r.msg>>, NoPost)
       /\ UNCHANGED <<jobs, due, questions, pages, form_data, clock>>

\* ---------------------------------------------------------------- set_reminder_pm

\* Lines 585-588 with the comparison of the minutes made strict: a reminder at
\* the very minute of now would not count as overdue.
BacklogDue_Strict(reminder_am, reminder_pm) ==
    \/ /\ current_time.hour < 12
       /\ \/ reminder_am.hh < current_time.hour
          \/ reminder_am.hh = current_time.hour /\ reminder_am.mm < current_time.minute
    \/ /\ current_time.hour >= 12
       /\ \/ reminder_pm.hh < current_time.hour
          \/ reminder_pm.hh = current_time.hour /\ reminder_pm.mm < current_time.minute

\* Lines 585-588: the reminder of the current period is at or before now.
\* reminder_am and reminder_pm are slot names here (run_daily has parsed them).
BacklogDue(reminder_am, reminder_pm) ==
    \/ /\ current_time.hour < 12
       /\ \/ reminder_am.hh < current_time.hour
          \/ reminder_am.hh = current_time.hour /\ reminder_am.mm <= current_time.minute
    \/ /\ current_time.hour >= 12
       /\ \/ reminder_pm.hh < current_time.hour
          \/ reminder_pm.hh = current_time.hour /\ reminder_pm.mm <= current_time.minute

set_reminder_pm(s, text) ==
    LET ud == user_data[s]
    IN /\ conv[s] = STATE_SET_REMINDER_PM
       /\ OwnedCount(jobs, s) + 2 <= MaxOwnedJobs
       /\ UNCHANGED <<questions, pages, form_data, clock, due>>
       /\ IF ~Has(ud, USER_DATA_OPTIONS)
          THEN /\ out' = Out("set_reminder_pm", s, TRUE, <<>>, NoPost)
               /\ UNCHANGED <<user_data, conv, jobs>>
          ELSE IF ~OptionsTruthy(ud)
          THEN /\ out' = Out("set_reminder_pm", s, FALSE, <<"ERROR_MESSAGE_TO_USERS">>, NoPost)
               /\ UNCHANGED <<user_data, conv, jobs>>
          ELSE IF text \notin ud[USER_DATA_OPTIONS]
          THEN /\ out' = Out("set_reminder_pm", s, FALSE, <<"Set your daily PM temperature reminder:">>, NoPost)
               /\ conv' = [conv EXCEPT ![s] = STATE_SET_REMINDER_PM]
               /\ UNCHANGED <<user_data, jobs>>
          ELSE IF ~Has(ud, USER_DATA_REMINDER_AM)
          THEN \* user_data["reminder_am"] raises KeyError
               /\ user_data' = [user_data EXCEPT ![s] = Put(ud, USER_DATA_REMINDER_PM, text)]
               /\ out' = Out("set_reminder_pm", s, TRUE, <<>>, NoPost)
               /\ UNCHANGED <<conv, jobs>>
          ELSE
            LET ud1 == Put(ud, USER_DATA_REMINDER_PM, text)
                req_am == ud1[USER_DATA_REMINDER_AM]
            IN \E order_am \in Orders(list_of_active_timeslots(jobs, req_am)) :
               LET am == AssignSlot(jobs, s, req_am, order_am)
                   ud2 == IF am.set THEN Put(ud1, USER_DATA_REMINDER_AM, am.reminder) ELSE ud1
               IN IF am.raised
                  THEN /\ user_data' = [user_data EXCEPT ![s] = ud2]
                       /\ jobs' = am.jobs
                       /\ out' = Out("set_reminder_pm", s, TRUE, <<>>, NoPost)
                       /\ UNCHANGED conv
                  ELSE \E order_pm \in Orders(list_of_active_timeslots(am.jobs, text)) :
                       LET pm == AssignSlot(am.jobs, s, text, order_pm)
                           ud3 == IF pm.set THEN Put(ud2, USER_DATA_REMINDER_PM, pm.reminder) ELSE ud2
                           ud4 == Put(ud3, USER_DATA_CONFIG_DONE, TRUE)
                           fs == force_submit(ud4)
                       IN /\ jobs' = pm.jobs
                          /\ IF pm.raised
                             THEN /\ user_data' = [user_data EXCEPT ![s] = ud3]
                                  /\ out' = Out("set_reminder_pm", s, TRUE, <<>>, NoPost)
                                  /\ UNCHANGED conv
                             ELSE IF BacklogDue(am.reminder, pm.reminder)
                             THEN /\ user_data' = [user_data EXCEPT ![s] = fs.ud]
                                  /\ conv' = [conv EXCEPT ![s] = fs.ret]
                                  /\ out' = Out("set_reminder_pm", s, FALSE,
                                                <<"Successfully finished setup!", fs.msg>>, NoPost)
                             ELSE /\ user_data' = [user_data EXCEPT ![s] = ud4]
                                  /\ conv' = [conv EXCEPT ![s] = END]
                                  /\ out' = Out("set_reminder_pm", s, FALSE,
                                                <<"Successfully finished setup!">>, NoPost)

\* ---------------------------------------------------------------- submission

\* TEMPERATURES, in tenths of a degree: str(x / 10) for x in range(360, 400)
TEMPERATURES == 360..399

\* The temperatures the chats of Sessions send, in tenths of a degree, and a
\* text that is no legal temperature.
TemperatureReplies == {375, 376}
InvalidTemperature == 350

\* What requests.post does: a status code, or an exception.
Responses ==
    {[raised |-> FALSE, status_code |-> 200], [raised |-> FALSE, status_code |-> 404],
     [raised |-> TRUE, status_code |-> 0]}

TempKey(am_or_pm) == IF am_or_pm = "AM" THEN KEY_AM_TEMP ELSE KEY_PM_TEMP

Entry(id, part) == <<"entry", id, part>>

\* The values of the temperature field: the text of a temperature, and the
\* marker "__other_option__".
TemperatureText(temperature) == <<"temperature", temperature>>
OTHER_OPTION == <<"__other_option__", 0>>

\* OutOfRange with the upper bound made exclusive
OutOfRange_UpperExclusive(temperature) == temperature < 360 \/ temperature >= 375

\* float(temperature) < 36.0 or float(temperature) > 37.5
OutOfRange(temperature) == temperature < 360 \/ temperature > 375

\* submit_form(), lines 262-266: the temperature fields of submit_data
TemperatureFields(temp_id, temperature) ==
    IF OutOfRange(temperature)
    THEN (Entry(temp_id, "other_option_response") :> TemperatureText(temperature)) @@
         (Entry(temp_id, "") :> OTHER_OPTION)
    ELSE (Entry(temp_id, "") :> TemperatureText(temperature))

\* submit_form(), lines 252-269: submit_data, or raised when a key is missing
\* from user_data, questions or pages.  The date fields hold the day's date,
\* which the model does not count.
submit_form(ud, qs, pgs, temperature, am_or_pm) ==
    IF \/ ~Has(qs, KEY_GROUP) \/ ~Has(ud, USER_DATA_GROUP)
       \/ ~Has(qs, ud[USER_DATA_GROUP]) \/ ~Has(ud, USER_DATA_NAME)
       \/ ~Has(qs, KEY_DATE) \/ ~Has(qs, KEY_AM_OR_PM) \/ ~Has(qs, TempKey(am_or_pm))
       \/ ~Has(pgs, KEY_GROUP) \/ ~Has(pgs, ud[USER_DATA_GROUP])
       \/ ~Has(pgs, KEY_DATE) \/ ~Has(pgs, TempKey(am_or_pm))
    THEN [raised |-> TRUE, submit_data |-> NoPost]
    ELSE [raised |-> FALSE,
          submit_data |->
            (Entry(qs[KEY_GROUP], "") :> ud[USER_DATA_GROUP]) @@
            (Entry(qs[ud[USER_DATA_GROUP]], "") :> ud[USER_DATA_NAME]) @@
            (Entry(qs[KEY_DATE], "year") :> "year") @@
            (Entry(qs[KEY_DATE], "month") :> "month") @@
            (Entry(qs[KEY_DATE], "day") :> "day") @@
            (Entry(qs[KEY_AM_OR_PM], "") :> am_or_pm) @@
            TemperatureFields(qs[TempKey(am_or_pm)], temperature) @@
            (<<"pageHistory">> :>
                <<pgs[KEY_GROUP], pgs[ud[USER_DATA_GROUP]], pgs[KEY_DATE],
                  pgs[TempKey(am_or_pm)]>>)]

\* SetTemperature with the submitted flag set on every status the form
\* client returns
SetTemperature_AnyStatus(s, text, response, am_or_pm, flag, by) ==
    LET ud == user_data[s]
        sf == submit_form(ud, questions, pages, text, am_or_pm)
        fs == force_submit(ud)
    IN IF text \in TEMPERATURES
       THEN IF sf.raised
            THEN /\ out' = Out(by, s, TRUE, <<>>, NoPost)
                 /\ UNCHANGED <<user_data, conv>>
            ELSE IF response.raised
            THEN /\ out' = Out(by, s, TRUE, <<>>, sf.submit_data)
                 /\ UNCHANGED <<user_data, conv>>
            ELSE /\ user_data' = [user_data EXCEPT ![s] = Put(ud, flag, TRUE)]
                 /\ conv' = [conv EXCEPT ![s] = END]
                 /\ out' = Out(by, s, FALSE,
                               IF response.status_code = 200
                               THEN <<"Submitted successfully">>
                               ELSE <<"Error occurred while submitting">>,
                               sf.submit_data)
       ELSE /\ user_data' = [user_data EXCEPT ![s] = fs.ud]
            /\ conv' = [conv EXCEPT ![s] = fs.ret]
            /\ out' = Out(by, s, FALSE, <<"Invalid temperature!", fs.msg>>, NoPost)

\* set_temperature_am() and set_temperature_pm(): `by` is the handler that
\* runs it, `response` what the form client does if it is called.
SetTemperature(s, text, response, am_or_pm, flag, by) ==
    LET ud == user_data[s]
        sf == submit_form(ud, questions, pages, text, am_or_pm)
        fs == force_submit(ud)
    IN IF text \in TEMPERATURES
       THEN IF sf.raised
            THEN /\ out' = Out(by, s, TRUE, <<>>, NoPost)
                 /\ UNCHANGED <<user_data, conv>>
            ELSE IF response.raised
            THEN /\ out' = Out(by, s, TRUE, <<>>, sf.submit_data)
                 /\ UNCHANGED <<user_data, conv>>
            ELSE IF response.status_code = 200
            THEN /\ user_data' = [user_data EXCEPT ![s] = Put(ud, flag, TRUE)]
                 /\ conv' = [conv EXCEPT ![s] = END]
                 /\ out' = Out(by, s, FALSE, <<"Submitted successfully">>, sf.submit_data)
            ELSE /\ user_data' = user_data
                 /\ conv' = [conv EXCEPT ![s] = END]
                 /\ out' = Out(by, s, FALSE, <<"Error occurred while submitting">>, sf.submit_data)
       ELSE /\ user_data' = [user_data EXCEPT ![s] = fs.ud]
            /\ conv' = [conv EXCEPT ![s] = fs.ret]
            /\ out' = Out(by, s, FALSE, <<"Invalid temperature!", fs.msg>>, NoPost)

\* The MessageHandler of state STATE_SET_TEMPERATURE_AM.  With allow_reentry the
\* entry points are tried first, and the entry point set_temperature takes
\* every text of TEMPERATURES.
set_temperature_am(s, text, response) ==
    /\ conv[s] = STATE_SET_TEMPERATURE_AM
    /\ text \notin TEMPERATURES
    /\ SetTemperature(s, text, response, "AM", USER_DATA_SUBMITTED_TEMPERATURE_AM,
                      "set_temperature_am")
    /\ UNCHANGED <<jobs, due, questions, pages, form_data, clock>>

set_temperature_pm(s, text, response) ==
    /\ conv[s] = STATE_SET_TEMPERATURE_PM
    /\ text \notin TEMPERATURES
    /\ SetTemperature(s, text, response, "PM", USER_DATA_SUBMITTED_TEMPERATURE_PM,
                      "set_temperature_pm")
    /\ UNCHANGED <<jobs, due, questions, pages, form_data, clock>>

\* The entry point MessageHandler(Filters.text(TEMPERATURES), set_temperature)
set_temperature(s, text, response) ==
    LET ud == user_data[s]
        cs == IF Has(ud, USER_DATA_CURRENT_STATE) THEN ud[USER_DATA_CURRENT_STATE] ELSE ""
    IN /\ text \in TEMPERATURES
       /\ IF cs = STATE_SET_TEMPERATURE_AM
          THEN SetTemperature(s, text, response, "AM", USER_DATA_SUBMITTED_TEMPERATURE_AM,
                              "set_temperature")
          ELSE IF cs = STATE_SET_TEMPERATURE_PM
          THEN SetTemperature(s, text, response, "PM", USER_DATA_SUBMITTED_TEMPERATURE_PM,
                              "set_temperature")
          ELSE /\ conv' = [conv EXCEPT ![s] = END]
               /\ out' = Out("set_temperature", s, FALSE, <<>>, NoPost)
               /\ UNCHANGED user_data
       /\ UNCHANGED <<jobs, due, questions, pages, form_data, clock>>

\* ---------------------------------------------------------------- scheduled callbacks

\* job.context and isinstance(job.context, tuple) and len(job.context) == 2
IsTupleContext(ctx) == ctx # NoContext

\* The time of day at which a job runs: a daily job at the time of its name,
\* an extra reminder 3600 s after the reminder that created it, the nightly
\* reset at 23:55.
RunsAt(j) ==
    IF j.name.kind = "slot" THEN <<j.name.hh, j.name.mm>>
    ELSE IF j.name.kind = "extra" THEN <<j.name.nh, j.name.nm>>
    ELSE <<23, 55>>

\* The jobs the scheduler runs at instant t.  The daily jobs of the chats
\* outside Sessions are left out: those chats have submitted, and
\* send_reminder does nothing for them.
DueAt(js, t) ==
    [j \in {k \in DOMAIN js : k.ctx # Other /\ RunsAt(k) = t} |-> js[j]]

\* the next time after t at which a job of js runs or the clock is probed
NextTime(js, t) ==
    LET times == {RunsAt(j) : j \in DOMAIN js} \cup ProbeTimes
    IN CHOOSE u \in times : \A v \in times : Until(t, u) <= Until(t, v)

\* The clock moves on once every job due at the current time has run.
Tick ==
    /\ due = EmptyDict
    /\ clock' = NextTime(jobs, clock)
    /\ due' = DueAt(jobs, clock')
    /\ out' = Out("clock", Other, FALSE, <<>>, NoPost)
    /\ UNCHANGED <<user_data, conv, jobs, questions, pages, form_data>>

\* InWindow with the window boundary itself allowed as the next hour
InWindow_BoundaryIncluded(n) ==
    \/ n.hh < 12 /\ n.hh + 1 <= 12
    \/ n.hh >= 12 /\ n.hh + 1 <= 24

\* send_reminder(), lines 135-137 and 153-154: the name of the extra reminder
\* and whether the next hour is inside the window of the reminder
NextReminderName(n) == ExtraName(n.hh, n.mm, n.hh + 1, n.mm)

InWindow(n) ==
    \/ n.hh < 12 /\ n.hh + 1 < 12
    \/ n.hh >= 12 /\ n.hh + 1 < 24

SubmittedKey(n) ==
    IF n.hh < 12 THEN USER_DATA_SUBMITTED_TEMPERATURE_AM
    ELSE USER_DATA_SUBMITTED_TEMPERATURE_PM

\* send_reminder() run for job j.  A job created by run_once is dropped by the
\* scheduler once it has run.
send_reminder(j) ==
    LET js == IF IsExtraName(j.name) THEN BagRemoveOne(jobs, j) ELSE jobs
        ud == IF j.ctx \in Sessions THEN user_data[j.ctx] ELSE EmptyDict
        fs == force_submit(ud)
    IN /\ j \in DOMAIN due
       /\ j.name.kind # "night"
       /\ due' = BagRemoveOne(due, j)
       /\ UNCHANGED <<conv, questions, pages, form_data, clock>>
       /\ IF ~REMINDER_JOB_NAME_REGEX(j.name) \/ ~IsTupleContext(j.ctx)
          THEN /\ jobs' = js
               /\ out' = Out("send_reminder", j.ctx, FALSE, <<>>, NoPost)
               /\ UNCHANGED user_data
          ELSE IF ~Has(ud, SubmittedKey(j.name))
          THEN \* user_data["submitted_am"] raises KeyError
               /\ jobs' = js
               /\ out' = Out("send_reminder", j.ctx, TRUE, <<>>, NoPost)
               /\ UNCHANGED user_data
          ELSE IF ud[SubmittedKey(j.name)] = FALSE /\ InWindow(j.name)
          THEN /\ jobs' = BagAdd(js, Job(NextReminderName(j.name), NoContext))
               /\ user_data' = [user_data EXCEPT ![j.ctx] = fs.ud]
               /\ out' = Out("send_reminder", j.ctx, FALSE, <<fs.msg>>, NoPost)
          ELSE /\ jobs' = js
               /\ out' = Out("send_reminder", j.ctx, FALSE, <<>>, NoPost)
               /\ UNCHANGED user_data

\* What urllib.request.urlopen gives GFormHelper.update_list: a form, or an
\* exception.
Refreshes == [raised : {FALSE}, form : Forms] \cup {[raised |-> TRUE, form |-> FormA]}

\* daily_night_reset(), lines 89-96: a job that is no extra reminder and has
\* a tuple context makes the loop unpack context.job.context, the context of
\* the reset job itself, which is None: TypeError.
NightLoopRaises(js) ==
    \E j \in DOMAIN js :
        ~IsExtraName(j.name) /\ IsTupleContext(j.ctx) /\ ~IsTupleContext(NoContext)

\* lines 88-91 and 109-110: the extra reminders are removed
RemoveExtraReminders(js) == [j \in {k \in DOMAIN js : ~IsExtraName(k.name)} |-> js[j]]

daily_night_reset(j, refresh) ==
    /\ j \in DOMAIN due
    /\ j.name.kind = "night"
    /\ UNCHANGED <<user_data, conv, questions, pages, clock>>
    /\ IF refresh.raised
       THEN /\ out' = Out("daily_night_reset", Other, TRUE, <<>>, NoPost)
            /\ due' = BagRemoveOne(due, j)
            /\ UNCHANGED <<jobs, form_data>>
       ELSE /\ form_data' = refresh.form
            /\ IF NightLoopRaises(jobs)
               THEN /\ out' = Out("daily_night_reset", Other, TRUE, <<>>, NoPost)
                    /\ due' = BagRemoveOne(due, j)
                    /\ UNCHANGED jobs
               ELSE /\ jobs' = RemoveExtraReminders(jobs)
                    /\ due' = StillScheduled(BagRemoveOne(due, j), jobs')
                    /\ out' = OutR("daily_night_reset", Other, FALSE, <<>>, NoPost,
                                   (DOMAIN jobs) \ (DOMAIN jobs'))

Next ==
    \/ \E s \in Sessions : stop(s)
    \/ \E s \in Sessions : config(s)
    \/ \E s \in Sessions, text \in GroupReplies : set_group(s, text)
    \/ \E s \in Sessions, text \in NameReplies : set_name(s, text)
    \/ \E s \in Sessions, text \in AmReplies : set_reminder_am(s, text)
    \/ \E s \in Sessions, text \in PmReplies : set_reminder_pm(s, text)
    \/ \E s \in Sessions : ForceSubmit(s)
    \/ \E s \in Sessions, text \in TemperatureReplies, r \in Responses : set_temperature(s, text, r)
    \/ \E s \in Sessions, r \in Responses : set_temperature_am(s, InvalidTemperature, r)
    \/ \E s \in Sessions, r \in Responses : set_temperature_pm(s, InvalidTemperature, r)
    \/ Tick
    \/ \E j \in DOMAIN due : send_reminder(j)
    \/ \E j \in DOMAIN due, refresh \in Refreshes : daily_night_reset(j, refresh)

Spec == Init /\ [][Next]_vars

\* ---------------------------------------------------------------- submit_form alone

\* The temperatures handed to submit_form when it is checked on its own, in
\* tenths of a degree: 33.0 .. 41.0.
MinSubmitTemperature == 330
MaxSubmitTemperature == 410

\* A chat that has completed /config, with the registries of main().
InitSubmit ==
    /\ \E g \in {GroupGA}, n \in {"Alice", "Bob"} :
         user_data = [s \in Sessions |->
            [group |-> g, name |-> n, config_done |-> TRUE, current_state |-> "",
             submitted_am |-> FALSE, submitted_pm |-> FALSE,
             reminder_am |-> SlotName(10, 0), reminder_pm |-> SlotName(22, 0),
             options |-> pm_reminder_options]]
    /\ conv = [s \in Sessions |-> END]
    /\ jobs = (Job(NightName, NoContext) :> 1) @@
              [j \in {Job(SlotName(10, 0), s) : s \in Sessions} \cup
                     {Job(SlotName(22, 0), s) : s \in Sessions} |-> 1]
    /\ due = EmptyDict
    /\ questions = StartupQuestions
    /\ pages = StartupPages
    /\ form_data = FormA
    /\ clock \in ProbeTimes
    /\ out = Out("main", Other, FALSE, <<>>, NoPost)

\* submit_form() applied to a temperature and a period; out.post is its
\* submit_data.
ApplySubmitForm(s, temperature, am_or_pm) ==
    /\ out' = Out("submit_form", s, FALSE, <<>>,
                  submit_form(user_data[s], questions, pages, temperature, am_or_pm).submit_data)
    /\ UNCHANGED <<user_data, conv, jobs, due, questions, pages, form_data, clock>>

NextSubmit ==
    \E s \in Sessions, t \in MinSubmitTemperature..MaxSubmitTemperature, p \in {"AM", "PM"} :
        ApplySubmitForm(s, t, p)

SpecSubmit == InitSubmit /\ [][NextSubmit]_vars

\* ---------------------------------------------------------------- daily_night_reset alone

\* An extra reminder is still pending at 23:55 only if its slot fired after
\* 22:55, and a chat is given such a slot only once minutes 0 to 55 of the
\* hour are full.  LateMinute is the first such minute.
LateMinute == RunsAt(Job(NightName, NoContext))[2] + 1

\* The daily jobs of the chats outside Sessions when minutes 0 .. LateMinute - 1
\* of hours 10 and 22 are full.
FullHours ==
    [j \in {Job(SlotName(h, m), Other) : h \in {10, 22}, m \in 0..(LateMinute - 1)} |->
        REMINDER_USER_LIMIT]

\* user_data of a chat that set_reminder_pm has given the slots 10:LateMinute
\* and 22:LateMinute; prompted tells whether its PM job has prompted it.
LateChat(name, submitted_am, submitted_pm, prompted) ==
    [group |-> GroupGA, name |-> name, config_done |-> TRUE,
     current_state |-> IF prompted THEN STATE_SET_TEMPERATURE_PM ELSE "",
     submitted_am |-> submitted_am, submitted_pm |-> submitted_pm,
     reminder_am |-> SlotName(10, LateMinute), reminder_pm |-> SlotName(22, LateMinute),
     options |-> pm_reminder_options]

\* 23:55, the nightly reset due.  The chats outside Sessions hold the full
\* hours or have all sent /stop; the chat of Sessions is configured or has sent
\* /stop; the extra reminder its PM job created is pending or was never created.
InitNight ==
    /\ \E others \in {FullHours, EmptyDict}, configured \in BOOLEAN, extra \in BOOLEAN,
          am \in BOOLEAN, pm \in BOOLEAN, name \in {"Alice", "Bob"} :
         /\ user_data = [s \in Sessions |->
                            IF configured THEN LateChat(name, am, pm, extra) ELSE EmptyDict]
         /\ jobs = (Job(NightName, NoContext) :> 1) @@ others @@
                   (IF configured
                    THEN [j \in {Job(SlotName(10, LateMinute), s) : s \in Sessions} \cup
                                {Job(SlotName(22, LateMinute), s) : s \in Sessions} |-> 1]
                    ELSE EmptyDict) @@
                   (IF extra
                    THEN (Job(ExtraName(22, LateMinute, 23, LateMinute), NoContext) :> 1)
                    ELSE EmptyDict)
    /\ conv = [s \in Sessions |-> END]
    /\ due = (Job(NightName, NoContext) :> 1)
    /\ questions = StartupQuestions
    /\ pages = StartupPages
    /\ form_data \in Forms
    /\ clock = RunsAt(Job(NightName, NoContext))
    /\ out = Out("clock", Other, FALSE, <<>>, NoPost)

NextNight ==
    \E j \in DOMAIN due, refresh \in Refreshes : daily_night_reset(j, refresh)

SpecNight == InitNight /\ [][NextNight]_vars

\* ---------------------------------------------------------------- properties

\* A bare time-slot name "HH:MM" among the names of the job list
SlotNames(js) == {j.name : j \in {k \in DOMAIN js : k.name.kind = "slot"}}

\* the daily reminder jobs owned by chat s, and how many they are
DailyJobsOf(js, s) == {j \in DOMAIN js : j.ctx = s /\ j.name.kind = "slot"}
DailyCount(js, s) == BagSum(js, DailyJobsOf(js, s))

\* This step is set_reminder_pm handling a reply of chat s that is one of
\* the offered options (the handler went past the validation of lines 500-510).
PmReplyAccepted(s) ==
    /\ conv[s] = STATE_SET_REMINDER_PM
    /\ out'.by = "set_reminder_pm" /\ out'.chat = s
    /\ out'.msgs # <<"Set your daily PM temperature reminder:">>
    /\ out'.msgs # <<"ERROR_MESSAGE_TO_USERS">>

\* C1: when set_reminder_pm has handled a valid reply (the last of the valid
\* replies of a dialog started by /config), config_done is true and the chat
\* owns exactly two daily jobs, one in the AM and one in the PM window.
C1_DialogEndsConfigured ==
    [][\A s \in Sessions :
        PmReplyAccepted(s) =>
            /\ GetBool(user_data'[s], USER_DATA_CONFIG_DONE)
            /\ DailyCount(jobs', s) = 2
            /\ \E j \in DailyJobsOf(jobs', s) : j.name.hh < 12
            /\ \E j \in DailyJobsOf(jobs', s) : j.name.hh >= 12]_vars

\* C2: no bare time-slot name is carried by more than REMINDER_USER_LIMIT
\* daily jobs.
C2_SlotOccupancy ==
    \A n \in SlotNames(jobs) : get_jobs_by_name(jobs, n) <= REMINDER_USER_LIMIT

\* the bare slots of the hour of time_requested, and those of them that are full
SlotsOfHour(js, time_requested) ==
    {n \in SlotNames(js) : n.hh = HourText(time_requested)}
FullSlotsOfHour(js, time_requested) ==
    {n \in SlotsOfHour(js, time_requested) : get_jobs_by_name(js, n) >= REMINDER_USER_LIMIT}

\* the AM slot chat s has asked for, while it is in STATE_SET_REMINDER_PM
RequestedAm(s) == user_data[s][USER_DATA_REMINDER_AM]

\* the number of jobs [n, s] that the step adds to the job list
Added(n, s) ==
    (IF Job(n, s) \in DOMAIN jobs' THEN jobs'[Job(n, s)] ELSE 0)
    - (IF Job(n, s) \in DOMAIN jobs THEN jobs[Job(n, s)] ELSE 0)

\* C3: when HH:00 is the only slot of hour HH and holds exactly
\* REMINDER_USER_LIMIT jobs, a chat that asks for HH:00 gets a new job named
\* HH:01, and HH:00 keeps its REMINDER_USER_LIMIT jobs.
C3_FullSlotOverflowsToNextMinute ==
    [][\A s \in Sessions :
        (/\ PmReplyAccepted(s)
         /\ RequestedAm(s).mm = 0
         /\ SlotsOfHour(jobs, RequestedAm(s)) = {RequestedAm(s)}
         /\ get_jobs_by_name(jobs, RequestedAm(s)) = REMINDER_USER_LIMIT)
        => /\ Added(SlotName(RequestedAm(s).hh, 1), s) = 1
           /\ get_jobs_by_name(jobs', SlotName(RequestedAm(s).hh, 1)) = 1
           /\ get_jobs_by_name(jobs', RequestedAm(s)) = REMINDER_USER_LIMIT]_vars

\* C4: once daily_night_reset has run, with the refresh of the form succeeding
\* or raising, submitted_am and submitted_pm are true for no chat.
C4_NightResetClearsFlags ==
    [][out'.by = "daily_night_reset" =>
        \A s \in Sessions :
            /\ ~GetBool(user_data'[s], USER_DATA_SUBMITTED_TEMPERATURE_AM)
            /\ ~GetBool(user_data'[s], USER_DATA_SUBMITTED_TEMPERATURE_PM)]_vars

\* C5: after /stop followed by /config of a chat, the job list holds no daily
\* job of the chat and no extra reminder that one of its daily jobs created.
\* (The chats outside Sessions create no extra reminders, so every extra
\* reminder of the model stems from a daily job of the chat.)
C5_NoJobLeftAfterStopConfig ==
    [][\A s \in Sessions :
        (out.by = "stop" /\ out.chat = s /\ out'.by = "config" /\ out'.chat = s)
        => \A j \in DOMAIN jobs' : j.ctx # s /\ ~IsExtraName(j.name)]_vars

\* the period, the two temperature keys and the temperature of posted data d
PostedPeriod(d) == d[Entry(questions[KEY_AM_OR_PM], "")]
PlainSlot(d) == Entry(questions[TempKey(PostedPeriod(d))], "")
OtherSlot(d) == Entry(questions[TempKey(PostedPeriod(d))], "other_option_response")
PostedTemperature(d) ==
    IF OtherSlot(d) \in DOMAIN d THEN d[OtherSlot(d)][2] ELSE d[PlainSlot(d)][2]

\* C6: submit_form sends a temperature below 36.0 or above 37.5 as the marker
\* "__other_option__" with the value in the other_option_response entry, and a
\* temperature from 36.0 to 37.5, both included, in the plain entry with no
\* other_option_response entry.
C6_OutOfRangeRouting ==
    out.by = "submit_form" =>
        LET d == out.post
            t == PostedTemperature(d)
        IN IF t < 360 \/ t > 375
           THEN /\ OtherSlot(d) \in DOMAIN d
                /\ d[OtherSlot(d)] = TemperatureText(t)
                /\ d[PlainSlot(d)] = OTHER_OPTION
           ELSE /\ OtherSlot(d) \notin DOMAIN d
                /\ d[PlainSlot(d)] = TemperatureText(t)

\* C6 witness: 37.5 has been sent in the plain entry.
C6_Witness ==
    /\ out.by = "submit_form"
    /\ OtherSlot(out.post) \notin DOMAIN out.post
    /\ out.post[PlainSlot(out.post)] = TemperatureText(375)

\* C7: /config leaves no daily job owned by the chat, sets submitted_am,
\* submitted_pm and config_done to false, moves the dialog to STATE_SET_GROUP
\* and stores the group options of the form as the chat's options.
C7_ConfigResets ==
    [][\A s \in Sessions :
        (out'.by = "config" /\ out'.chat = s)
        => /\ \A j \in DOMAIN jobs' : j.ctx # s
           /\ user_data'[s][USER_DATA_SUBMITTED_TEMPERATURE_AM] = FALSE
           /\ user_data'[s][USER_DATA_SUBMITTED_TEMPERATURE_PM] = FALSE
           /\ user_data'[s][USER_DATA_CONFIG_DONE] = FALSE
           /\ conv'[s] = STATE_SET_GROUP
           /\ Has(user_data'[s], USER_DATA_OPTIONS)
           /\ user_data'[s][USER_DATA_OPTIONS] =
                DOMAIN get_options_and_next_question_id(form_data, questions[KEY_GROUP])]_vars

\* C8: /stop of chat s leaves no job owned by s, empties the user_data of s,
\* ends its dialog, and leaves every job that s does not own in the job list as
\* many times as before, whatever its name.
C8_StopRemovesOwnJobsOnly ==
    [][\A s \in Sessions :
        (out'.by = "stop" /\ out'.chat = s)
        => /\ \A j \in DOMAIN jobs' : j.ctx # s
           /\ \A j \in DOMAIN jobs : j.ctx # s => (j \in DOMAIN jobs' /\ jobs'[j] = jobs[j])
           /\ DOMAIN jobs' \subseteq DOMAIN jobs
           /\ DOMAIN user_data'[s] = {}
           /\ conv'[s] = END]_vars

\* C8 witness: /stop has removed the chat's job from slot 10:00, which other
\* chats still share.
C8_Witness ==
    /\ out.by = "stop"
    /\ \E s \in Sessions : Job(SlotName(10, 0), s) \in out.removed
    /\ Job(SlotName(10, 0), Other) \in DOMAIN jobs
    /\ jobs[Job(SlotName(10, 0), Other)] = REMINDER_USER_LIMIT - 1

\* the highest minute among slot names S
MaxMinute(S) == CHOOSE m \in {n.mm : n \in S} : \A n \in S : n.mm <= m

\* C9: when every slot of the requested hour is full, the chat gets a new job
\* at HH:((m + 1) mod 60), m the highest minute among those slots, whatever
\* the order in which they are enumerated.
C9_NextMinuteAfterHighest ==
    [][\A s \in Sessions :
        (/\ PmReplyAccepted(s)
         /\ SlotsOfHour(jobs, RequestedAm(s)) # {}
         /\ FullSlotsOfHour(jobs, RequestedAm(s)) = SlotsOfHour(jobs, RequestedAm(s)))
        => LET m == MaxMinute(SlotsOfHour(jobs, RequestedAm(s)))
               n == SlotName(HourText(RequestedAm(s)), (m + 1) % 60)
           IN /\ Added(n, s) = 1
              /\ user_data'[s][USER_DATA_REMINDER_AM] = n]_vars

\* C10: when a slot of the requested hour has room, the chat's job is added to
\* a slot of that hour that had room before the step, and the slot names of
\* that hour stay the same.
C10_JoinsSlotWithRoom ==
    [][\A s \in Sessions :
        (/\ PmReplyAccepted(s)
         /\ FullSlotsOfHour(jobs, RequestedAm(s)) # SlotsOfHour(jobs, RequestedAm(s)))
        => /\ \E n \in SlotsOfHour(jobs, RequestedAm(s)) \ FullSlotsOfHour(jobs, RequestedAm(s)) :
                Added(n, s) = 1
           /\ SlotsOfHour(jobs', RequestedAm(s)) = SlotsOfHour(jobs, RequestedAm(s))]_vars

\* C11: set_reminder_pm, given a reply that is one of the offered options,
\* completes without raising, and the slots it stores as reminder_am and
\* reminder_pm and the names of the jobs the chat owns are bare HH:MM names,
\* also while extra reminders of the requested hours are pending.
C11_AssignedSlotIsBare ==
    [][\A s \in Sessions :
        PmReplyAccepted(s)
        => /\ ~out'.raised
           /\ Has(user_data'[s], USER_DATA_REMINDER_AM)
           /\ user_data'[s][USER_DATA_REMINDER_AM].kind = "slot"
           /\ Has(user_data'[s], USER_DATA_REMINDER_PM)
           /\ user_data'[s][USER_DATA_REMINDER_PM].kind = "slot"
           /\ \A j \in OwnedBy(jobs', s) : j.name.kind = "slot"]_vars

\* This step is send_reminder run for the due job j.
Fires(j) ==
    /\ j \in DOMAIN due
    /\ out'.by = "send_reminder"
    /\ due' = BagRemoveOne(due, j)

\* the temperature state of the window of job name n
TemperatureState(n) ==
    IF n.hh < 12 THEN STATE_SET_TEMPERATURE_AM ELSE STATE_SET_TEMPERATURE_PM

\* chat s is configured and has not submitted for the window of job name n
NotSubmitted(s, n) ==
    /\ GetBool(user_data[s], USER_DATA_CONFIG_DONE)
    /\ Has(user_data[s], SubmittedKey(n))
    /\ user_data[s][SubmittedKey(n)] = FALSE

\* C12: when the daily job of a configured chat fires and the chat has not
\* submitted for the window of the slot, the chat is sent the temperature
\* prompt and its current_state becomes the temperature state of that window,
\* whatever the hour of the slot (11 and 23 included).
C12_SlotFirePrompts ==
    [][\A s \in Sessions : \A j \in DOMAIN due :
        (Fires(j) /\ j.name.kind = "slot" /\ j.ctx = s /\ NotSubmitted(s, j.name))
        => /\ out'.chat = s
           /\ out'.msgs = <<"Please enter your temperature:">>
           /\ user_data'[s][USER_DATA_CURRENT_STATE] = TemperatureState(j.name)]_vars

\* the extra-reminder jobs the step adds to the job list
NewExtras ==
    {j \in DOMAIN jobs' :
        IsExtraName(j.name) /\ (j \notin DOMAIN jobs \/ jobs'[j] > jobs[j])}

\* C13: every extra reminder is created by the daily job of a chat that has
\* not submitted for the window of the slot, and the hour it is due lies in
\* that window: below 12 for a slot before 12:00, below 24 otherwise.
C13_ExtraOnlyInsideWindow ==
    [][\A e \in NewExtras :
        /\ IF e.name.hh < 12 THEN e.name.nh < 12 ELSE e.name.nh < 24
        /\ \E j \in DOMAIN due :
             /\ Fires(j) /\ j.name.kind = "slot" /\ j.ctx \in Sessions
             /\ j.name.hh = e.name.hh /\ j.name.mm = e.name.mm
             /\ user_data[j.ctx][SubmittedKey(j.name)] = FALSE]_vars

\* C13 witness: the 22:00 job of a chat that has not submitted has fired; the
\* chat is prompted and the extra reminder due at 23:00 is in the job list.
C13_Witness ==
    /\ out.by = "send_reminder"
    /\ out.chat \in Sessions
    /\ out.msgs = <<"Please enter your temperature:">>
    /\ clock = <<22, 0>>
    /\ Job(ExtraName(22, 0, 23, 0), NoContext) \in DOMAIN jobs

\* C14: when an extra reminder fires while the chat that owns its origin slot
\* is configured and has not submitted for the window, the chat is prompted
\* again, and the next extra reminder is scheduled an hour later unless that
\* hour is outside the window.
C14_ExtraReminderChains ==
    [][\A s \in Sessions : \A e \in DOMAIN due :
        (/\ Fires(e) /\ IsExtraName(e.name)
         /\ Job(SlotName(e.name.hh, e.name.mm), s) \in DOMAIN jobs
         /\ NotSubmitted(s, e.name))
        => /\ out'.msgs = <<"Please enter your temperature:">>
           /\ (IF e.name.hh < 12 THEN e.name.nh + 1 < 12 ELSE e.name.nh + 1 < 24)
                => \E j \in NewExtras :
                      /\ j.name.hh = e.name.hh /\ j.name.mm = e.name.mm
                      /\ j.name.nh = e.name.nh + 1 /\ j.name.nm = e.name.nm]_vars

\* C15: once daily_night_reset has run with the refresh of the form
\* succeeding, the job list holds no extra reminder, whatever daily jobs it
\* holds.
C15_NightResetRemovesExtras ==
    [][\A j \in DOMAIN due : \A refresh \in Refreshes :
        (out'.by = "daily_night_reset" /\ ~refresh.raised /\ daily_night_reset(j, refresh))
        => \A k \in DOMAIN jobs' : ~IsExtraName(k.name)]_vars

\* name n is an option of group g in the namelists of form
InSnapshot(form, g, n) ==
    LET options_dict == get_options_and_next_question_id(form, questions[KEY_GROUP])
    IN g \in DOMAIN options_dict /\ n \in get_options(form, options_dict[g])

\* C16: when daily_night_reset runs with the refresh succeeding, a chat with
\* config_done whose group and name are not in the refreshed namelists is sent
\* a warning, and its user_data stays as it is.
C16_NightResetWarns ==
    [][\A s \in Sessions : \A j \in DOMAIN due : \A refresh \in Refreshes :
        (/\ out'.by = "daily_night_reset"
         /\ ~refresh.raised /\ daily_night_reset(j, refresh)
         /\ GetBool(user_data[s], USER_DATA_CONFIG_DONE)
         /\ ~InSnapshot(refresh.form, user_data[s][USER_DATA_GROUP],
                        user_data[s][USER_DATA_NAME]))
        => /\ out'.msgs # <<>>
           /\ user_data'[s] = user_data[s]]_vars

\* This step is chat s sending the temperature text while its current_state
\* is a temperature state, the form client answering with response r if it is
\* called.
SubmitStep(s, text, r) ==
    /\ out'.by = "set_temperature" /\ out'.chat = s
    /\ Has(user_data[s], USER_DATA_CURRENT_STATE)
    /\ user_data[s][USER_DATA_CURRENT_STATE] \in
            {STATE_SET_TEMPERATURE_AM, STATE_SET_TEMPERATURE_PM}
    /\ set_temperature(s, text, r)

\* the period and the submitted flag of the submission chat s is asked for
PeriodOf(s) ==
    IF user_data[s][USER_DATA_CURRENT_STATE] = STATE_SET_TEMPERATURE_AM THEN "AM" ELSE "PM"
FlagOf(s) ==
    IF user_data[s][USER_DATA_CURRENT_STATE] = STATE_SET_TEMPERATURE_AM
    THEN USER_DATA_SUBMITTED_TEMPERATURE_AM ELSE USER_DATA_SUBMITTED_TEMPERATURE_PM

\* C17: when the form client returns a status for a submission, the chat's
\* submitted flag of the period is set exactly when the status is
\* STATUS_SUBMIT_OK; on any other status user_data is unchanged, the chat is
\* told of the failure and the handler ends the dialog after its one call of
\* the form client.
C17_FlagOnlyOnSuccess ==
    [][\A s \in Sessions : \A text \in TemperatureReplies : \A r \in Responses :
        (SubmitStep(s, text, r) /\ ~r.raised /\ DOMAIN out'.post # {})
        => IF r.status_code = STATUS_SUBMIT_OK
           THEN /\ user_data'[s][FlagOf(s)] = TRUE
                /\ out'.msgs = <<"Submitted successfully">>
           ELSE /\ user_data'[s] = user_data[s]
                /\ out'.msgs = <<"Error occurred while submitting">>
                /\ conv'[s] = END]_vars

\* C17 witness: an AM submission was answered with a status other than
\* STATUS_SUBMIT_OK; the chat is told and submitted_am is false.
C17_Witness ==
    /\ out.by = "set_temperature"
    /\ out.msgs = <<"Error occurred while submitting">>
    /\ DOMAIN out.post # {}
    /\ PostedPeriod(out.post) = "AM"
    /\ \E s \in Sessions :
         /\ out.chat = s
         /\ Has(user_data[s], USER_DATA_SUBMITTED_TEMPERATURE_AM)
         /\ user_data[s][USER_DATA_SUBMITTED_TEMPERATURE_AM] = FALSE

\* C18: when the call of the form client raises, the handler does not raise,
\* the chat is told of the failure and user_data is unchanged.
C18_ClientErrorIsCaught ==
    [][\A s \in Sessions : \A text \in TemperatureReplies : \A r \in Responses :
        (SubmitStep(s, text, r) /\ r.raised /\ DOMAIN out'.post # {})
        => /\ ~out'.raised
           /\ out'.msgs = <<"Error occurred while submitting">>
           /\ user_data'[s] = user_data[s]]_vars

\* a key that submit_form reads from questions or pages is absent, for a chat
\* whose group and name are set
RegistryKeyMissing(ud, qs, pgs, am_or_pm) ==
    /\ Has(ud, USER_DATA_GROUP) /\ Has(ud, USER_DATA_NAME)
    /\ \/ \E k \in {KEY_GROUP, ud[USER_DATA_GROUP], KEY_DATE, KEY_AM_OR_PM, TempKey(am_or_pm)} :
            ~Has(qs, k)
       \/ \E k \in {KEY_GROUP, ud[USER_DATA_GROUP], KEY_DATE, TempKey(am_or_pm)} :
            ~Has(pgs, k)

\* C19: when a key that the submission needs is absent from questions or
\* pages, nothing is posted to the form, user_data is unchanged, the handler
\* does not raise and the chat is told of the failure.
C19_MissingKeyFailsCleanly ==
    [][\A s \in Sessions : \A text \in TemperatureReplies : \A r \in Responses :
        (/\ SubmitStep(s, text, r)
         /\ RegistryKeyMissing(user_data[s], questions, pages, PeriodOf(s)))
        => /\ DOMAIN out'.post = {}
           /\ user_data'[s] = user_data[s]
           /\ ~out'.raised
           /\ out'.msgs # <<>>]_vars

\* C20: after /config every group option of the form is a key of questions,
\* mapped to the id of the name question of that group.
C20_ConfigRegistersGroups ==
    [][\A s \in Sessions :
        (out'.by = "config" /\ out'.chat = s)
        => LET options_dict ==
                   get_options_and_next_question_id(form_data, questions[KEY_GROUP])
           IN \A o \in DOMAIN options_dict :
                 Has(questions', o) /\ questions'[o] = options_dict[o]]_vars

\* ---------------------------------------------------------------- C21

\* The prompt each dialog state re-emits on a reply outside its options.
DialogStates ==
    {STATE_SET_GROUP, STATE_SET_NAME, STATE_SET_REMINDER_AM, STATE_SET_REMINDER_PM}

DialogPrompt(state) ==
    CASE state = STATE_SET_GROUP -> "Select your group:"
      [] state = STATE_SET_NAME -> "Select your name"
      [] state = STATE_SET_REMINDER_AM -> "Set your daily AM temperature reminder:"
      [] state = STATE_SET_REMINDER_PM -> "Set your daily PM temperature reminder:"

\* A text message of chat s handled while its dialog is in one of the four
\* configuration states, the text being outside user_data["options"].  The
\* conversation handler tries its entry points first (allow_reentry), so a text
\* of TEMPERATURES goes to set_temperature and any other text to the handler
\* of the state.
InvalidDialogReply(s) ==
    /\ out'.chat = s
    /\ conv[s] \in DialogStates
    /\ OptionsTruthy(user_data[s])
    /\ \/ out'.by = "set_temperature"
       \/ /\ out'.by = "set_group"
          /\ \E text \in GroupReplies \ user_data[s][USER_DATA_OPTIONS] : set_group(s, text)
       \/ /\ out'.by = "set_name"
          /\ \E text \in NameReplies \ user_data[s][USER_DATA_OPTIONS] : set_name(s, text)
       \/ /\ out'.by = "set_reminder_am"
          /\ \E text \in AmReplies \ user_data[s][USER_DATA_OPTIONS] : set_reminder_am(s, text)
       \/ /\ out'.by = "set_reminder_pm"
          /\ \E text \in PmReplies \ user_data[s][USER_DATA_OPTIONS] : set_reminder_pm(s, text)

\* C21: in SET_GROUP, SET_NAME, SET_REMINDER_AM and SET_REMINDER_PM a reply that
\* is not among the pending options leaves the dialog in the same state with
\* the same user data (options, group, name, reminders, config_done), creates
\* no job and sends the prompt of that state again.
C21_InvalidReplySelfLoops ==
    [][\A s \in Sessions :
        InvalidDialogReply(s)
        => /\ conv'[s] = conv[s]
           /\ user_data'[s] = user_data[s]
           /\ jobs' = jobs
           /\ out'.msgs = <<DialogPrompt(conv[s])>>]_vars

\* ---------------------------------------------------------------- C22

\* set_reminder_pm ran to its end for chat s: it set config_done and sent the
\* confirmation (lines 574-578).
SetupFinished(s) ==
    /\ out'.by = "set_reminder_pm" /\ out'.chat = s
    /\ conv[s] = STATE_SET_REMINDER_PM
    /\ ~out'.raised
    /\ Len(out'.msgs) >= 1
    /\ out'.msgs[1] = "Successfully finished setup!"

\* The reminder just stored for the half-day of the current time.
ReminderOfPeriod(ud) ==
    IF current_time.hour < 12 THEN ud[USER_DATA_REMINDER_AM] ELSE ud[USER_DATA_REMINDER_PM]

\* C22: when set_reminder_pm completes the setup, the dialog goes to
\* SET_TEMPERATURE_AM (before 12:00) or SET_TEMPERATURE_PM (from 12:00 on)
\* exactly when the reminder just assigned for the current half-day is at or
\* before the current time, and ends otherwise.
C22_BacklogPrompt ==
    [][\A s \in Sessions :
        SetupFinished(s)
        => LET r == ReminderOfPeriod(user_data'[s])
           IN IF Minutes(<<r.hh, r.mm>>) <= Minutes(clock)
              THEN conv'[s] = IF current_time.hour < 12 THEN STATE_SET_TEMPERATURE_AM
                              ELSE STATE_SET_TEMPERATURE_PM
              ELSE conv'[s] = END]_vars

\* A setup completed at the very minute of the new AM reminder: the dialog
\* waits for the AM temperature.
C22_Witness ==
    /\ out.by = "set_reminder_pm" /\ ~out.raised
    /\ conv["chat1"] = STATE_SET_TEMPERATURE_AM
    /\ Has(user_data["chat1"], USER_DATA_REMINDER_AM)
    /\ user_data["chat1"][USER_DATA_REMINDER_AM].hh = clock[1]
    /\ user_data["chat1"][USER_DATA_REMINDER_AM].mm = clock[2]

\* ---------------------------------------------------------------- C23, C24

\* A text of TEMPERATURES sent by chat s while its dialog is at END and its
\* configuration is complete: the entry point set_temperature handles it.
IdleTemperatureMessage(s) ==
    /\ out'.by = "set_temperature" /\ out'.chat = s
    /\ conv[s] = END
    /\ GetBool(user_data[s], USER_DATA_CONFIG_DONE)

\* The handler of the step went as far as submit_form: it handed data to the
\* form client or raised on the way.
SubmissionAttempted == DOMAIN out'.post # {} \/ out'.raised

\* C23: a legal temperature text sent by a configured chat whose dialog is at
\* END leads to a submission attempt, whether or not a temperature prompt was
\* ever sent to the chat.
C23_IdleTemperatureSubmits ==
    [][\A s \in Sessions : IdleTemperatureMessage(s) => SubmissionAttempted]_vars

\* The step is set_temperature_am or set_temperature_pm run for chat s on a
\* legal temperature, reached through the entry point set_temperature, and
\* the form client answered with a status.
TemperatureHandled(s, r) ==
    /\ out'.by = "set_temperature" /\ out'.chat = s
    /\ conv[s] \in {STATE_SET_TEMPERATURE_AM, STATE_SET_TEMPERATURE_PM}
    /\ Has(user_data[s], USER_DATA_CURRENT_STATE)
    /\ user_data[s][USER_DATA_CURRENT_STATE] = conv[s]
    /\ ~r.raised
    /\ DOMAIN out'.post # {}
    /\ \E text \in TemperatureReplies : set_temperature(s, text, r)

\* C24: set_temperature_am / set_temperature_pm end the dialog when the form
\* client answers 200 and keep it in STATE_SET_TEMPERATURE_AM /
\* STATE_SET_TEMPERATURE_PM when it answers any other status.
C24_FailedSubmissionStays ==
    [][\A s \in Sessions : \A r \in Responses :
        TemperatureHandled(s, r)
        => IF r.status_code = STATUS_SUBMIT_OK
           THEN conv'[s] = END
           ELSE conv'[s] = conv[s]]_vars

\* ---------------------------------------------------------------- C25

\* Every bare slot of job list js carries at most REMINDER_USER_LIMIT jobs.
WithinLimit(js) ==
    \A n \in SlotNames(js) : get_jobs_by_name(js, n) <= REMINDER_USER_LIMIT

HalfDayNow == IF current_time.hour < 12 THEN "AM" ELSE "PM"

\* The step is a submission of chat s that the form client answered with 200.
SubmissionSucceeded(s) ==
    /\ out'.by = "set_temperature" /\ out'.chat = s
    /\ out'.msgs = <<"Submitted successfully">>
    /\ DOMAIN out'.post # {}

\* The submitted flags that the step turns from unset or False to True.
FlagsSet(s) ==
    {k \in {USER_DATA_SUBMITTED_TEMPERATURE_AM, USER_DATA_SUBMITTED_TEMPERATURE_PM} :
        /\ GetBool(user_data'[s], k)
        /\ ~GetBool(user_data[s], k)}

\* C26: when a submission succeeds, the period sent to the form and the
\* submitted flag that is set are those of the half-day of the current time;
\* a text sent after 12:00 is never submitted as AM, even though current_state
\* still holds SET_TEMPERATURE_AM from an earlier prompt.
C26_PeriodMatchesClock ==
    [][\A s \in Sessions :
        SubmissionSucceeded(s)
        => /\ PostedPeriod(out'.post) = HalfDayNow
           /\ FlagsSet(s) \subseteq
                {IF HalfDayNow = "AM" THEN USER_DATA_SUBMITTED_TEMPERATURE_AM
                 ELSE USER_DATA_SUBMITTED_TEMPERATURE_PM}]_vars

\* ---------------------------------------------------------------- C27

\* The daily jobs of the chats outside Sessions when minute 59 of the hours 10
\* and 22 is full: n of them sit in minute 0 of each hour, REMINDER_USER_LIMIT
\* in minute 59 (the chats of the minutes between have sent /stop).
WrapJobs(n) ==
    BagOf(n, Job(SlotName(10, 0), Other)) @@
    BagOf(REMINDER_USER_LIMIT, Job(SlotName(10, 59), Other)) @@
    BagOf(n, Job(SlotName(22, 0), Other)) @@
    BagOf(REMINDER_USER_LIMIT, Job(SlotName(22, 59), Other))

\* main() has run and the chats outside Sessions hold the slots of WrapJobs.
InitWrap ==
    /\ user_data = [s \in Sessions |-> EmptyDict]
    /\ conv = [s \in Sessions |-> END]
    /\ \E n \in {REMINDER_USER_LIMIT - 1, REMINDER_USER_LIMIT} :
         jobs = (Job(NightName, NoContext) :> 1) @@ WrapJobs(n)
    /\ due = EmptyDict
    /\ questions = StartupQuestions
    /\ pages = StartupPages
    /\ form_data = FormA
    /\ clock \in ProbeTimes
    /\ out = Out("main", Other, FALSE, <<>>, NoPost)

SpecWrap == InitWrap /\ [][Next]_vars

\* C27: the slot set_reminder_pm assigns has the hour of the time asked for,
\* also when the minute wraps from 59 to 0; a chat with config_done true has
\* its reminder_am in 00:00-11:59 and its reminder_pm in 12:00-23:59.
C27_AssignedHourIsRequestedHour ==
    [][\A s \in Sessions :
        /\ \A text \in PmReplies :
             (/\ out'.by = "set_reminder_pm" /\ out'.chat = s
              /\ SetupFinished(s)
              /\ set_reminder_pm(s, text))
             => /\ user_data'[s][USER_DATA_REMINDER_AM].hh = RequestedAm(s).hh
                /\ user_data'[s][USER_DATA_REMINDER_PM].hh = text.hh
        /\ GetBool(user_data'[s], USER_DATA_CONFIG_DONE)
           => /\ Has(user_data'[s], USER_DATA_REMINDER_AM)
              /\ Has(user_data'[s], USER_DATA_REMINDER_PM)
              /\ user_data'[s][USER_DATA_REMINDER_AM].kind = "slot"
              /\ user_data'[s][USER_DATA_REMINDER_PM].kind = "slot"
              /\ user_data'[s][USER_DATA_REMINDER_AM].hh \in 0..11
              /\ user_data'[s][USER_DATA_REMINDER_PM].hh \in 12..23
              /\ user_data'[s][USER_DATA_REMINDER_AM].mm \in 0..59
              /\ user_data'[s][USER_DATA_REMINDER_PM].mm \in 0..59]_vars

\* The chat asked for 10:00 while 10:00 and 10:59 were full and 10:59 was
\* enumerated last: the minute wrapped to 0 and the chat is configured in 10:00.
C27_Witness ==
    /\ out.by = "set_reminder_pm" /\ ~out.raised
    /\ GetBool(user_data["chat1"], USER_DATA_CONFIG_DONE)
    /\ user_data["chat1"][USER_DATA_REMINDER_AM] = SlotName(10, 0)
    /\ get_jobs_by_name(jobs, SlotName(10, 59)) = REMINDER_USER_LIMIT
    /\ get_jobs_by_name(jobs, SlotName(10, 0)) = REMINDER_USER_LIMIT + 1

\* ---------------------------------------------------------------- C28

\* C28: every chat owns no daily job, or exactly two of them, one before 12:00
\* and one from 12:00 on; it owns two exactly when its config_done is true.
\* No failure inside set_reminder_pm leaves a chat with a single daily job.
C28_TwoJobsIffConfigured ==
    \A s \in Sessions :
        /\ DailyCount(jobs, s) \in {0, 2}
        /\ DailyCount(jobs, s) = 2 <=> GetBool(user_data[s], USER_DATA_CONFIG_DONE)
        /\ DailyCount(jobs, s) = 2
           => /\ \E j \in DailyJobsOf(jobs, s) : j.name.hh < 12
              /\ \E j \in DailyJobsOf(jobs, s) : j.name.hh >= 12

\* ---------------------------------------------------------------- C29

\* Chat s has config_done true, a group and a name.
Configured(ud) ==
    /\ GetBool(ud, USER_DATA_CONFIG_DONE)
    /\ Has(ud, USER_DATA_GROUP)
    /\ Has(ud, USER_DATA_NAME)

\* C29: data reaches the form client only for a chat with config_done true, a
\* group and a name, and only with a temperature of TEMPERATURES.  /config and
\* /stop leave config_done not true, and only set_reminder_pm finishing the
\* setup makes it true again: between them neither /force_submit nor a text of
\* TEMPERATURES posts anything.
C29_SubmitOnlyWhenConfigured ==
    [][\A s \in Sessions :
        /\ (out'.chat = s /\ DOMAIN out'.post # {})
           => /\ Configured(user_data[s])
              /\ PostedTemperature(out'.post) \in TEMPERATURES
              /\ out'.by = "set_temperature"
        /\ (out'.chat = s /\ out'.by \in {"config", "stop"})
           => ~GetBool(user_data'[s], USER_DATA_CONFIG_DONE)
        /\ (~GetBool(user_data[s], USER_DATA_CONFIG_DONE)
            /\ GetBool(user_data'[s], USER_DATA_CONFIG_DONE))
           => SetupFinished(s)
        /\ (out'.chat = s /\ out'.by \in {"force_submit", "set_temperature"}
            /\ ~GetBool(user_data[s], USER_DATA_CONFIG_DONE))
           => DOMAIN out'.post = {}]_vars

\* A chat that had chosen its name in an earlier dialog has sent /config (its
\* options are the groups again, config_done is False) and then a temperature:
\* nothing was posted and the dialog has ended.
C29_Witness ==
    /\ out.by = "set_temperature" /\ out.chat = "chat1"
    /\ DOMAIN out.post = {}
    /\ conv["chat1"] = END
    /\ Has(user_data["chat1"], USER_DATA_GROUP)
    /\ Has(user_data["chat1"], USER_DATA_NAME)
    /\ Has(user_data["chat1"], USER_DATA_CONFIG_DONE)
    /\ ~user_data["chat1"][USER_DATA_CONFIG_DONE]
    /\ user_data["chat1"][USER_DATA_OPTIONS] \subseteq {GroupGA, GroupGB}

====
